---- MODULE Spec2Model ----
(***************************************************************************)
(* Model of python/app/utils/editor.py: check_terminal_capabilities,       *)
(* edit_code (the prompt_toolkit full-screen editor) and edit_code_basic   *)
(* (the external editor on a temporary file).                              *)
(*                                                                         *)
(* Every call is a process p; pc[p] is the position of the call in the     *)
(* code.  The environment (terminal, TERM, the user's keys, the external   *)
(* editor, the file system's answers) is chosen nondeterministically.      *)
(***************************************************************************)
EXTENDS Integers, Sequences, FiniteSets, TLC

\* ---------------------------------------------------------------- bounds
MaxLen == 2          \* longest text (initial_code, buffer, file written by the editor)
NProcs == 2          \* calls that may be in flight together
NPaths == 2          \* names the temporary directory can hand out

Procs == 1..NProcs
Paths == 1..NPaths

\* ---------------------------------------------------------------- values
Chars == {"a", "\n", "\r"}

RECURSIVE SeqsUpTo(_)
SeqsUpTo(n) ==
    IF n = 0 THEN {<< >>}
    ELSE LET S == SeqsUpTo(n - 1)
         IN  S \cup {Append(s, c) : s \in {t \in S : Len(t) = n - 1}, c \in Chars}

Texts == SeqsUpTo(MaxLen)

\* os.linesep of the platform: POSIX or Windows
LineSeps == {<<"\n">>, <<"\r", "\n">>}

\* values of os.environ.get('TERM'); "None" is the unset variable
Terms == {"None", "dumb", "xterm", ""}

\* exit statuses of os.system: success, failure, command not found
ExitStatuses == {0, 1, 127}

Entries == {"edit_code", "edit_code_basic"}

\* Python's None where a text is expected (no text has this value), where a
\* message is expected, where an exception is expected, where a status is expected
None == <<"None">>
NoMsg == "None"
NoExc == "None"
NoStatus == -1
NoFile == [ino |-> 0, data |-> << >>]
NoPath == 0

VARIABLES
    pc,              \* position of each call
    entry,           \* the function the caller invoked
    initial_code,    \* the argument
    supports_editor, \* first component of check_terminal_capabilities() (FALSE until assigned)
    error_msg,       \* second component
    text_area,       \* the TextArea's buffer text
    f_name,          \* f.name of the NamedTemporaryFile (NoPath before creation)
    temp_file,       \* the local temp_file (NoPath while unassigned)
    result,          \* value computed by the try block, waiting for finally
    pending,         \* exception raised in the try block, waiting for finally
    status,          \* exit status of os.system
    file_at_exit,    \* what the editor left at the path when it exited
    basic_ret,       \* value returned by edit_code_basic
    ret,             \* value returned to the caller
    exc,             \* exception that escaped to the caller
    out,             \* lines printed so far (kinds)
    events,          \* what the call has done so far, in order
    fs,              \* temporary directory: path -> file
    linesep,         \* os.linesep
    isatty,          \* sys.stdout.isatty()
    TERM             \* os.environ.get('TERM')

vars == <<pc, entry, initial_code, supports_editor, error_msg, text_area, f_name,
          temp_file, result, pending, status, file_at_exit, basic_ret, ret, exc,
          out, events, fs, linesep, isatty, TERM>>

\* ---------------------------------------------------------------- text mode I/O

\* f.write(initial_code) on a file opened with mode='w' (newline=None):
\* every "\n" is written as os.linesep, everything else unchanged.
RECURSIVE WriteText(_, _)
WriteText(s, sep) ==
    IF s = << >> THEN << >>
    ELSE IF Head(s) = "\n" THEN sep \o WriteText(Tail(s), sep)
    ELSE <<Head(s)>> \o WriteText(Tail(s), sep)

\* f.read() on a file opened with mode='r' (newline=None, universal newlines):
\* "\r\n" and a lone "\r" are both read as "\n".
RECURSIVE ReadText(_)
ReadText(d) ==
    IF d = << >> THEN << >>
    ELSE IF Head(d) = "\r"
         THEN IF Len(d) >= 2 /\ d[2] = "\n"
              THEN <<"\n">> \o ReadText(Tail(Tail(d)))
              ELSE <<"\n">> \o ReadText(Tail(d))
    ELSE <<Head(d)>> \o ReadText(Tail(d))

\* ---------------------------------------------------------------- helpers
Exists(path) == path \in Paths /\ fs[path] # NoFile

Count(seq, e) == Cardinality({i \in 1..Len(seq) : seq[i] = e})

Log(p, e) == events' = [events EXCEPT ![p] = Append(@, e)]

Echo(p, lines) == out' = [out EXCEPT ![p] = @ \cup lines]

\* ---------------------------------------------------------------- capability check
\* the two checks in the other order
check_terminal_capabilities_term_first(tty, term) ==
    IF term = "dumb" THEN <<FALSE, "Terminal does not support required features">>
    ELSE IF ~tty THEN <<FALSE, "Not running in a terminal">>
    ELSE <<TRUE, NoMsg>>

check_terminal_capabilities(tty, term) ==
    IF ~tty THEN <<FALSE, "Not running in a terminal">>
    ELSE IF term = "dumb" THEN <<FALSE, "Terminal does not support required features">>
    ELSE <<TRUE, NoMsg>>

\* ---------------------------------------------------------------- state after construction
Fresh ==
    /\ supports_editor = [p \in Procs |-> FALSE]
    /\ error_msg = [p \in Procs |-> NoMsg]
    /\ text_area = [p \in Procs |-> << >>]
    /\ f_name = [p \in Procs |-> NoPath]
    /\ temp_file = [p \in Procs |-> NoPath]
    /\ result = [p \in Procs |-> None]
    /\ pending = [p \in Procs |-> NoExc]
    /\ status = [p \in Procs |-> NoStatus]
    /\ file_at_exit = [p \in Procs |-> None]
    /\ basic_ret = [p \in Procs |-> None]
    /\ ret = [p \in Procs |-> None]
    /\ exc = [p \in Procs |-> NoExc]
    /\ out = [p \in Procs |-> {}]
    /\ events = [p \in Procs |-> << >>]
    /\ fs = [path \in Paths |-> NoFile]

\* One call, of either entry point, in any environment.
Init ==
    /\ Fresh
    /\ linesep \in LineSeps
    /\ isatty \in BOOLEAN
    /\ TERM \in Terms
    /\ pc = [p \in Procs |-> IF p = 1 THEN "start" ELSE "off"]
    /\ \E e \in Entries, t \in Texts :
          /\ entry = [p \in Procs |-> IF p = 1 THEN e ELSE "none"]
          /\ initial_code = [p \in Procs |-> IF p = 1 THEN t ELSE << >>]

\* ---------------------------------------------------------------- edit_code

\* lines 61-62: supports_editor, error_msg = check_terminal_capabilities()
CheckCapabilities(p) ==
    /\ pc[p] = "start" /\ entry[p] = "edit_code"
    /\ LET r == check_terminal_capabilities(isatty, TERM)
       IN  /\ supports_editor' = [supports_editor EXCEPT ![p] = r[1]]
           /\ error_msg' = [error_msg EXCEPT ![p] = r[2]]
    /\ Log(p, "check")
    /\ pc' = [pc EXCEPT ![p] = "checked"]
    /\ UNCHANGED <<entry, initial_code, text_area, f_name, temp_file, result, pending,
                   status, file_at_exit, basic_ret, ret, exc, out, fs, linesep,
                   isatty, TERM>>

\* the fallback without its return: warns, then goes on to the rich editor
FallBack_no_return(p) ==
    /\ pc[p] = "checked" /\ supports_editor[p] = FALSE
    /\ Echo(p, {<<"Warning", error_msg[p]>>, <<"echo", "Falling back to basic text editor...">>,
                <<"print", "Editor Instructions">>})
    /\ Log(p, "rich")
    /\ pc' = [pc EXCEPT ![p] = "input"]
    /\ UNCHANGED <<entry, initial_code, supports_editor, error_msg, text_area, f_name,
                   temp_file, result, pending, status, file_at_exit, basic_ret, ret,
                   exc, fs, linesep, isatty, TERM>>

\* lines 62-65: not supported: warn and call edit_code_basic(initial_code)
FallBack(p) ==
    /\ pc[p] = "checked" /\ supports_editor[p] = FALSE
    /\ Echo(p, {<<"Warning", error_msg[p]>>, <<"echo", "Falling back to basic text editor...">>})
    /\ Log(p, "basic")
    /\ pc' = [pc EXCEPT ![p] = "basic_create"]
    /\ UNCHANGED <<entry, initial_code, supports_editor, error_msg, text_area, f_name,
                   temp_file, result, pending, status, file_at_exit, basic_ret, ret,
                   exc, fs, linesep, isatty, TERM>>

\* lines 67-95: supported: print the instructions and block in input()
ShowInstructions(p) ==
    /\ pc[p] = "checked" /\ supports_editor[p] = TRUE
    /\ Echo(p, {<<"print", "Editor Instructions">>})
    /\ Log(p, "rich")
    /\ pc' = [pc EXCEPT ![p] = "input"]
    /\ UNCHANGED <<entry, initial_code, supports_editor, error_msg, text_area, f_name,
                   temp_file, result, pending, status, file_at_exit, basic_ret, ret,
                   exc, fs, linesep, isatty, TERM>>

\* lines 95-128: input() returns; the TextArea is built with text=initial_code
\* and the application is about to run
StartEditor(p) ==
    /\ pc[p] = "input"
    /\ Echo(p, {<<"echo", "Starting code editor...">>})
    /\ text_area' = [text_area EXCEPT ![p] = initial_code[p]]
    /\ pc' = [pc EXCEPT ![p] = "app_run"]
    /\ UNCHANGED <<entry, initial_code, supports_editor, error_msg, f_name, temp_file,
                   result, pending, status, file_at_exit, basic_ret, ret, exc, events,
                   fs, linesep, isatty, TERM>>

\* line 95: input() raises (Ctrl+C gives KeyboardInterrupt, a closed stdin gives
\* EOFError); the statement is outside every try block
InputRaises(p) ==
    /\ pc[p] = "input"
    /\ \E e \in {"KeyboardInterrupt", "EOFError"} : exc' = [exc EXCEPT ![p] = e]
    /\ pc' = [pc EXCEPT ![p] = "raised"]
    /\ UNCHANGED <<entry, initial_code, supports_editor, error_msg, text_area, f_name,
                   temp_file, result, pending, status, file_at_exit, basic_ret, ret,
                   out, events, fs, linesep, isatty, TERM>>

\* line 132, inside app.run(): a key handled by the text area (type a character
\* at the end, or delete the last one)
EditBuffer(p) ==
    /\ pc[p] = "app_run"
    /\ \/ \E c \in Chars :
            /\ Len(text_area[p]) < MaxLen
            /\ text_area' = [text_area EXCEPT ![p] = Append(@, c)]
       \/ /\ text_area[p] # << >>
          /\ text_area' = [text_area EXCEPT ![p] = SubSeq(@, 1, Len(@) - 1)]
    /\ UNCHANGED <<pc, entry, initial_code, supports_editor, error_msg, f_name, temp_file,
                   result, pending, status, file_at_exit, basic_ret, ret, exc, out,
                   events, fs, linesep, isatty, TERM>>

\* return result, as the docstring has it ("or None if cancelled")
ReturnResult_as_is(p, r) == r

\* line 133: return result if result is not None else initial_code
ReturnResult(p, r) == IF r # None THEN r ELSE initial_code[p]

\* line 101 then 133: Ctrl+S, e.app.exit(result=e.current_buffer.text)
KeySave(p) ==
    /\ pc[p] = "app_run"
    /\ result' = [result EXCEPT ![p] = text_area[p]]
    /\ ret' = [ret EXCEPT ![p] = ReturnResult(p, text_area[p])]
    /\ Log(p, "c-s")
    /\ pc' = [pc EXCEPT ![p] = "done"]
    /\ UNCHANGED <<entry, initial_code, supports_editor, error_msg, text_area, f_name,
                   temp_file, pending, status, file_at_exit, basic_ret, exc, out,
                   fs, linesep, isatty, TERM>>

\* line 100 then 133: Ctrl+C, e.app.exit(result=None)
KeyCancel(p) ==
    /\ pc[p] = "app_run"
    /\ result' = [result EXCEPT ![p] = None]
    /\ ret' = [ret EXCEPT ![p] = ReturnResult(p, None)]
    /\ Log(p, "c-c")
    /\ pc' = [pc EXCEPT ![p] = "done"]
    /\ UNCHANGED <<entry, initial_code, supports_editor, error_msg, text_area, f_name,
                   temp_file, pending, status, file_at_exit, basic_ret, exc, out,
                   fs, linesep, isatty, TERM>>

\* lines 134-136: app.run() raises KeyboardInterrupt; return initial_code
Interrupted(p) ==
    /\ pc[p] = "app_run"
    /\ ret' = [ret EXCEPT ![p] = initial_code[p]]
    /\ Log(p, "KeyboardInterrupt")
    /\ pc' = [pc EXCEPT ![p] = "done"]
    /\ UNCHANGED <<entry, initial_code, supports_editor, error_msg, text_area, f_name,
                   temp_file, result, pending, status, file_at_exit, basic_ret, exc,
                   out, fs, linesep, isatty, TERM>>

\* ---------------------------------------------------------------- edit_code_basic

\* line 138: the caller invokes edit_code_basic directly
EnterBasic(p) ==
    /\ pc[p] = "start" /\ entry[p] = "edit_code_basic"
    /\ Log(p, "basic")
    /\ pc' = [pc EXCEPT ![p] = "basic_create"]
    /\ UNCHANGED <<entry, initial_code, supports_editor, error_msg, text_area, f_name,
                   temp_file, result, pending, status, file_at_exit, basic_ret, ret,
                   exc, out, fs, linesep, isatty, TERM>>

\* The names tempfile may give a new file: mkstemp opens with O_CREAT | O_EXCL,
\* so any name at which no file exists now.
FreePaths == {path \in Paths : fs[path] = NoFile}

\* line 143: tempfile.NamedTemporaryFile(mode='w', suffix='.py', delete=False)
CreateTemp(p) ==
    /\ pc[p] = "basic_create"
    /\ \E path \in FreePaths :
          /\ fs' = [fs EXCEPT ![path] = [ino |-> p, data |-> << >>]]
          /\ f_name' = [f_name EXCEPT ![p] = path]
    /\ Log(p, "create")
    /\ pc' = [pc EXCEPT ![p] = "basic_write"]
    /\ UNCHANGED <<entry, initial_code, supports_editor, error_msg, text_area, temp_file,
                   result, pending, status, file_at_exit, basic_ret, ret, exc, out,
                   linesep, isatty, TERM>>

\* line 143 raises (no usable temporary directory, no free name): no file is made
CreateFails(p) ==
    /\ pc[p] = "basic_create"
    /\ exc' = [exc EXCEPT ![p] = "OSError"]
    /\ pc' = [pc EXCEPT ![p] = "raised"]
    /\ UNCHANGED <<entry, initial_code, supports_editor, error_msg, text_area, f_name,
                   temp_file, result, pending, status, file_at_exit, basic_ret, ret,
                   out, events, fs, linesep, isatty, TERM>>

\* lines 144-145 and the end of the with block: the text is written through the
\* open descriptor (to the file this call created, whatever its name now points
\* to), the file is closed, temp_file = f.name
WriteTemp(p) ==
    /\ pc[p] = "basic_write"
    /\ fs' = [path \in Paths |->
                IF path = f_name[p] /\ fs[path].ino = p
                THEN [ino |-> p, data |-> WriteText(initial_code[p], linesep)]
                ELSE fs[path]]
    /\ temp_file' = [temp_file EXCEPT ![p] = f_name[p]]
    /\ Log(p, "write")
    /\ pc' = [pc EXCEPT ![p] = "basic_try"]
    /\ UNCHANGED <<entry, initial_code, supports_editor, error_msg, text_area, f_name,
                   result, pending, status, file_at_exit, basic_ret, ret, exc, out,
                   linesep, isatty, TERM>>

\* line 144 (or the flush at close) raises: an unencodable character, a full
\* disk.  The with block only closes the file; the try block is not entered.
WriteFails(p) ==
    /\ pc[p] = "basic_write"
    /\ \E e \in {"UnicodeEncodeError", "OSError"} : exc' = [exc EXCEPT ![p] = e]
    /\ Log(p, "write_failed")
    /\ pc' = [pc EXCEPT ![p] = "raised"]
    /\ UNCHANGED <<entry, initial_code, supports_editor, error_msg, text_area, f_name,
                   temp_file, result, pending, status, file_at_exit, basic_ret, ret,
                   out, fs, linesep, isatty, TERM>>

\* the command started without waiting for it
SpawnEditor_no_wait(p) ==
    /\ pc[p] = "basic_try"
    /\ Echo(p, {<<"echo", "Opening editor...">>})
    /\ Log(p, "spawn")
    /\ pc' = [pc EXCEPT ![p] = "basic_read"]
    /\ UNCHANGED <<entry, initial_code, supports_editor, error_msg, text_area, f_name,
                   temp_file, result, pending, status, file_at_exit, basic_ret, ret,
                   exc, fs, linesep, isatty, TERM>>

\* lines 149-157: the messages, then os.system(f"{editor} {temp_file}") starts
\* the command and waits for it
SpawnEditor(p) ==
    /\ pc[p] = "basic_try"
    /\ Echo(p, {<<"echo", "Opening editor...">>})
    /\ Log(p, "spawn")
    /\ pc' = [pc EXCEPT ![p] = "basic_system"]
    /\ UNCHANGED <<entry, initial_code, supports_editor, error_msg, text_area, f_name,
                   temp_file, result, pending, status, file_at_exit, basic_ret, ret,
                   exc, fs, linesep, isatty, TERM>>

\* What the external command does to the path it was given: nothing, save a
\* text there, or remove (rename) the file.
EditorEffect(p, effect, data) ==
    LET t == temp_file[p] IN
    CASE effect = "keep"   -> fs
      [] effect = "save"   -> [fs EXCEPT ![t] = [ino |-> IF fs[t] = NoFile THEN p ELSE fs[t].ino,
                                                 data |-> data]]
      [] effect = "remove" -> [fs EXCEPT ![t] = NoFile]

\* line 157: the command exits and os.system returns its status, which is dropped
EditorExit(p) ==
    /\ pc[p] = "basic_system"
    /\ \E st \in ExitStatuses, effect \in {"keep", "save", "remove"}, data \in Texts :
          /\ st = 127 => effect = "keep"
          /\ effect # "save" => data = << >>
          /\ fs' = EditorEffect(p, effect, data)
          /\ status' = [status EXCEPT ![p] = st]
    /\ file_at_exit' = [file_at_exit EXCEPT ![p] =
                           IF fs'[temp_file[p]] = NoFile THEN None
                           ELSE fs'[temp_file[p]].data]
    /\ Log(p, "exit")
    /\ pc' = [pc EXCEPT ![p] = "basic_read"]
    /\ UNCHANGED <<entry, initial_code, supports_editor, error_msg, text_area, f_name,
                   temp_file, result, pending, basic_ret, ret, exc, out, linesep,
                   isatty, TERM>>

\* lines 160-161: with open(temp_file, 'r') as f: return f.read()
\* The value (or the exception) waits for the finally block.
ReadBack(p) ==
    /\ pc[p] = "basic_read"
    /\ \/ /\ Exists(temp_file[p])
          /\ result' = [result EXCEPT ![p] = ReadText(fs[temp_file[p]].data)]
          /\ Log(p, "read")
          /\ UNCHANGED pending
       \/ /\ ~Exists(temp_file[p])
          /\ pending' = [pending EXCEPT ![p] = "FileNotFoundError"]
          /\ Log(p, "read_failed")
          /\ UNCHANGED result
       \/ /\ Exists(temp_file[p])
          /\ pending' = [pending EXCEPT ![p] = "OSError"]
          /\ Log(p, "read_failed")
          /\ UNCHANGED result
    /\ pc' = [pc EXCEPT ![p] = "basic_finally"]
    /\ UNCHANGED <<entry, initial_code, supports_editor, error_msg, text_area, f_name,
                   temp_file, status, file_at_exit, basic_ret, ret, exc, out, fs,
                   linesep, isatty, TERM>>

\* lines 164-173: os.unlink(temp_file) and its except clauses
UnlinkOutcomes == {"ok", "FileNotFoundError", "PermissionError", "OSError"}

\* a warning for the file that is already gone, too
Warnings_also_when_gone(outcome) ==
    CASE outcome = "PermissionError" ->
             {<<"Warning", "Could not delete temporary file due to permission issues">>}
      [] outcome \in {"OSError", "FileNotFoundError"} ->
             {<<"Warning", "Error deleting temporary file">>,
              <<"echo", "Temporary file location">>}
      [] OTHER -> {}

Warnings(outcome) ==
    CASE outcome = "PermissionError" ->
             {<<"Warning", "Could not delete temporary file due to permission issues">>}
      [] outcome = "OSError" ->
             {<<"Warning", "Error deleting temporary file">>,
              <<"echo", "Temporary file location">>}
      [] OTHER -> {}

\* lines 162-173 and the end of edit_code_basic: one os.unlink, the warning of
\* its except clause, then the pending return or exception of the try block
\* goes on
Cleanup(p) ==
    /\ pc[p] = "basic_finally"
    /\ \E outcome \in UnlinkOutcomes :
          /\ outcome = "ok" => Exists(temp_file[p])
          /\ outcome = "FileNotFoundError" => ~Exists(temp_file[p])
          /\ fs' = IF outcome = "ok" THEN [fs EXCEPT ![temp_file[p]] = NoFile] ELSE fs
          /\ Echo(p, Warnings(outcome))
          /\ Log(p, outcome)
    /\ IF pending[p] # NoExc
       THEN /\ exc' = [exc EXCEPT ![p] = pending[p]]
            /\ pc' = [pc EXCEPT ![p] = "raised"]
            /\ UNCHANGED <<basic_ret, ret>>
       ELSE /\ basic_ret' = [basic_ret EXCEPT ![p] = result[p]]
            /\ IF entry[p] = "edit_code_basic"
               THEN /\ ret' = [ret EXCEPT ![p] = result[p]]
                    /\ pc' = [pc EXCEPT ![p] = "done"]
               ELSE /\ pc' = [pc EXCEPT ![p] = "basic_returned"]
                    /\ UNCHANGED ret
            /\ UNCHANGED exc
    /\ UNCHANGED <<entry, initial_code, supports_editor, error_msg, text_area, f_name,
                   temp_file, result, pending, status, file_at_exit, linesep, isatty,
                   TERM>>

\* line 65: return edit_code_basic(initial_code)
ReturnBasic(p) ==
    /\ pc[p] = "basic_returned"
    /\ ret' = [ret EXCEPT ![p] = basic_ret[p]]
    /\ pc' = [pc EXCEPT ![p] = "done"]
    /\ UNCHANGED <<entry, initial_code, supports_editor, error_msg, text_area, f_name,
                   temp_file, result, pending, status, file_at_exit, basic_ret, exc,
                   out, events, fs, linesep, isatty, TERM>>

\* ---------------------------------------------------------------- specifications
Next ==
    \E p \in Procs :
       \/ CheckCapabilities(p)
       \/ FallBack(p)
       \/ ShowInstructions(p)
       \/ StartEditor(p)
       \/ InputRaises(p)
       \/ EditBuffer(p)
       \/ KeySave(p)
       \/ KeyCancel(p)
       \/ Interrupted(p)
       \/ EnterBasic(p)
       \/ CreateTemp(p)
       \/ CreateFails(p)
       \/ WriteTemp(p)
       \/ WriteFails(p)
       \/ SpawnEditor(p)
       \/ EditorExit(p)
       \/ ReadBack(p)
       \/ Cleanup(p)
       \/ ReturnBasic(p)

Spec == Init /\ [][Next]_vars

\* Concurrent calls of edit_code_basic on one POSIX machine, each with its own
\* text.
ConcTexts == {<<"a">>, <<"a", "a">>}

InitConc ==
    /\ Fresh
    /\ linesep = <<"\n">>
    /\ isatty = FALSE
    /\ TERM = "None"
    /\ pc = [p \in Procs |-> "start"]
    /\ entry = [p \in Procs |-> "edit_code_basic"]
    /\ initial_code \in [Procs -> ConcTexts]

NextConc ==
    \E p \in Procs :
       \/ EnterBasic(p)
       \/ CreateTemp(p)
       \/ CreateFails(p)
       \/ WriteTemp(p)
       \/ WriteFails(p)
       \/ SpawnEditor(p)
       \/ EditorExit(p)
       \/ ReadBack(p)
       \/ Cleanup(p)

SpecConc == InitConc /\ [][NextConc]_vars

\* ---------------------------------------------------------------- vocabulary of the claims
Returned(p) == pc[p] = "done"
Raised(p) == pc[p] = "raised"
Finished(p) == Returned(p) \/ Raised(p)

InEvents(p, e) == \E i \in 1..Len(events[p]) : events[p][i] = e
Last(seq) == seq[Len(seq)]

RichPath(p) == InEvents(p, "rich")
BasicPath(p) == InEvents(p, "basic")

AllWarnings ==
    Warnings("PermissionError") \cup Warnings("OSError")

Warned(p) == out[p] \cap AllWarnings # {}

\* what edit_code_basic did with its file, in order
FileEvents(p) == SelectSeq(events[p], LAMBDA e : e \notin {"check", "basic"})

IsPrefix(a, b) == Len(a) <= Len(b) /\ \A i \in 1..Len(a) : a[i] = b[i]

FullOrders ==
    {<<"create", "write", "spawn", "exit", r, u>> :
        r \in {"read", "read_failed"}, u \in UnlinkOutcomes}

UnlinkCount(p) == Cardinality({i \in 1..Len(events[p]) : events[p][i] \in UnlinkOutcomes})

\* ---------------------------------------------------------------- C1
\* C1 (as stated): on the rich path no exception escapes edit_code, and a run
\* that is terminated early (an interrupt or end-of-input at the Enter prompt,
\* an interrupt in the modal loop) returns initial_code.
C1_NoEscapeOnRichPath ==
    \A p \in Procs :
       RichPath(p) =>
          /\ ~Raised(p)
          /\ exc[p] = NoExc
          /\ (Returned(p) /\ Last(events[p]) \in {"rich", "KeyboardInterrupt"})
                => ret[p] = initial_code[p]

\* ---------------------------------------------------------------- C2
\* C2 (as stated): once the temporary file is created, whatever the editor and
\* the file system do, the call ends by returning a text; no exception reaches
\* the caller.
C2_NoErrorIsFatal ==
    \A p \in Procs :
       InEvents(p, "create") =>
          /\ ~Raised(p)
          /\ exc[p] = NoExc
          /\ Returned(p) => ret[p] # None

FileUnmodified(p) ==
    /\ InEvents(p, "exit")
    /\ file_at_exit[p] = WriteText(initial_code[p], linesep)

C4_RoundTrip ==
    \A p \in Procs :
       (BasicPath(p) /\ Returned(p) /\ FileUnmodified(p)) => ret[p] = initial_code[p]

\* ---------------------------------------------------------------- C5
\* C5 (as stated): when edit_code_basic has finished, the file it created is
\* gone or a warning about the failed deletion was printed.
C5_CleanedOrWarned ==
    \A p \in Procs :
       (BasicPath(p) /\ Finished(p) /\ f_name[p] # NoPath) =>
          \/ ~Exists(f_name[p])
          \/ Warned(p)

\* ---------------------------------------------------------------- C6
\* C6: the delete is attempted once; after a successful read its outcome does
\* not change the result (the call returns the text read from the file the
\* editor left, nothing is raised); "already gone" and success print no
\* warning, a permission error and any other error print theirs.
C6_DeletionErrorsSwallowed ==
    \A p \in Procs :
       /\ UnlinkCount(p) <= 1
       /\ pc[p] \in {"done", "raised", "basic_returned"} /\ InEvents(p, "write")
             => UnlinkCount(p) = 1
       /\ UnlinkCount(p) = 1 =>
             /\ InEvents(p, "read") =>
                   /\ pc[p] \in {"done", "basic_returned"}
                   /\ exc[p] = NoExc
                   /\ basic_ret[p] = ReadText(file_at_exit[p])
                   /\ Returned(p) => ret[p] = ReadText(file_at_exit[p])
             /\ InEvents(p, "FileNotFoundError") => ~Warned(p)
             /\ InEvents(p, "ok") => ~Warned(p)
             /\ InEvents(p, "PermissionError") =>
                   Warnings("PermissionError") \subseteq out[p]
             /\ InEvents(p, "OSError") => Warnings("OSError") \subseteq out[p]

C6_Witness ==
    \E p \in Procs :
       /\ Returned(p) /\ InEvents(p, "read") /\ InEvents(p, "PermissionError")
       /\ Exists(temp_file[p]) /\ Warned(p)
       /\ ret[p] = ReadText(file_at_exit[p]) /\ ret[p] # initial_code[p]

\* ---------------------------------------------------------------- C7
\* C7: the check reports supported exactly when stdout is a terminal and TERM
\* is not "dumb"; the reason is None exactly when supported and a non-empty
\* message otherwise; without a terminal the reason is "Not running in a
\* terminal" whatever TERM is; the check always returns and prints, creates
\* and removes nothing.
C7_CapabilityCheck ==
    \A p \in Procs :
       InEvents(p, "check") =>
          /\ supports_editor[p] = (isatty /\ TERM # "dumb")
          /\ (error_msg[p] = NoMsg) = supports_editor[p]
          /\ error_msg[p] # ""
          /\ ~isatty => error_msg[p] = "Not running in a terminal"
          /\ pc[p] = "checked" =>
                /\ out[p] = {}
                /\ exc[p] = NoExc
                /\ \A path \in Paths : fs[path] = NoFile

C7_Witness ==
    \E p \in Procs :
       /\ pc[p] = "checked" /\ ~isatty /\ TERM = "dumb"
       /\ supports_editor[p] = FALSE
       /\ error_msg[p] = "Not running in a terminal"

\* ---------------------------------------------------------------- C8
\* C8: a call of edit_code checks the capabilities once and then enters one
\* path, once: the basic one iff the check said no, the rich one iff it said
\* yes.  On the basic path no instructions are shown and no editor
\* application is started, and edit_code returns what edit_code_basic
\* returned; on the rich path no file is created and no command is spawned.
C8_Dispatch ==
    \A p \in Procs :
       entry[p] = "edit_code" =>
          /\ Count(events[p], "check") = (IF pc[p] = "start" THEN 0 ELSE 1)
          /\ Count(events[p], "basic") + Count(events[p], "rich")
                = (IF pc[p] \in {"start", "checked"} THEN 0 ELSE 1)
          /\ BasicPath(p) => ~supports_editor[p]
          /\ RichPath(p) => supports_editor[p]
          /\ BasicPath(p) =>
                /\ <<"print", "Editor Instructions">> \notin out[p]
                /\ <<"echo", "Starting code editor...">> \notin out[p]
                /\ pc[p] \notin {"input", "app_run"}
                /\ Returned(p) => ret[p] = basic_ret[p] /\ ret[p] # None
          /\ RichPath(p) =>
                /\ f_name[p] = NoPath /\ temp_file[p] = NoPath
                /\ \A path \in Paths : fs[path] = NoFile
                /\ ~InEvents(p, "create") /\ ~InEvents(p, "spawn")

C8_Witness ==
    \E p \in Procs :
       /\ entry[p] = "edit_code" /\ Returned(p) /\ BasicPath(p)
       /\ ~supports_editor[p]
       /\ ret[p] = basic_ret[p] /\ ret[p] # initial_code[p]

Live(p) == f_name[p] # NoPath /\ ~Finished(p)

\* C10 (as stated): concurrent calls of edit_code_basic have distinct paths
\* while they are live, the file at a live call's path is the one that call
\* created, and a call returns the text its own editor left in its file.
C10_NoInterference ==
    \A p \in Procs :
       /\ \A q \in Procs \ {p} : (Live(p) /\ Live(q)) => f_name[p] # f_name[q]
       /\ (Live(p) /\ Exists(f_name[p])) => fs[f_name[p]].ino = p
       /\ Returned(p) => ret[p] = ReadText(file_at_exit[p])

====
